---- MODULE Spec2Model ----
(***************************************************************************)
(* Model of app.py, the "Multi-File Data Analysis App": a Streamlit script *)
(* that merges uploaded budget files into one table (process_data) and     *)
(* renders up to five analyses of it.  A Streamlit script is re-executed   *)
(* from top to bottom after every widget interaction; each action of Spec  *)
(* is one interaction followed by the complete re-execution.  SpecFn calls *)
(* process_data and the unused-funds selection directly on every file      *)
(* sequence of the bounded input universe.                                 *)
(***************************************************************************)
EXTENDS Integers, Sequences, FiniteSets, TLC

VARIABLES uploaded_files,     \* value of the st.file_uploader widget
          analysis_options,   \* value of the sidebar multiselect
          selected_lbtype,    \* value of the "Select LBType(s)" multiselect
          cache,              \* the st.cache_data store of process_data
          ret,                \* what the call of process_data returned
          errors,             \* st.error boxes on the page
          reads,              \* positions of the files handed to pd.read_*
          data,               \* the module-level name `data`
          menu,               \* the sidebar analysis menu is on the page
          page                \* the five analysis views on the page

vars == <<uploaded_files, analysis_options, selected_lbtype, cache, ret,
          errors, reads, data, menu, page>>

-----------------------------------------------------------------------------
(* Bounds of the input universe *)

\* files in one upload
MaxFiles == 2
\* source rows in one upload, over all of its files
MaxRows == 3
\* distinct file sequences the cache holds before the session ends
MaxCache == 2

-----------------------------------------------------------------------------
(* Values *)

\* pandas' missing value
NaN == "NaN"
\* Python's None, as returned by process_data on a schema failure
None == [kind |-> "None"]
\* the exception pd.concat raises on an empty list
ValueError == [kind |-> "ValueError"]
\* process_data has not been called / `data` is unbound
NotCalled == [kind |-> "NotCalled"]
\* an analysis that is not on the page
NoView == [kind |-> "NoView"]

required_columns == {"Code", "LBType", "Tot", "TotExp", "Sector", "District"}

NumericColumns == {"Tot", "TotExp", "Difference"}

-----------------------------------------------------------------------------
(* The input universe: named files with a header and raw rows *)

RawRow(code, lbtype, tot, totexp, sector, district) ==
    [Code |-> code, LBType |-> lbtype, Tot |-> tot, TotExp |-> totexp,
     Sector |-> sector, District |-> district]

\* project codes are text; an empty Code cell is what the readers turn
\* into NaN
RowPool ==
    { RawRow("P1", "X", 2, 0, "S1", "D1"),
      RawRow("",  "Y", 1, 0, "S2", "D2"),
      RawRow("P2", "Y", 0, 0, "S2", "D2"),
      RawRow("P3", "X", 1, 2, "S1", "D1"),
      RawRow("P4", "Y", -1, 0, "S1", "D2") }

FileNames == { [stem |-> "a", ext |-> ".csv"], [stem |-> "b", ext |-> ".xlsx"] }

Headers == { required_columns,
             required_columns \ {"Sector"},
             required_columns \ {"TotExp"} }

Restrict(row, cols) == [c \in cols |-> row[c]]

\* a file as the uploader first lists it, before any row is read from it
EmptyFile(nm, h) == [name |-> nm, columns |-> h, rows |-> <<>>]

RECURSIVE TotalRows(_)
TotalRows(files) ==
    IF files = <<>> THEN 0 ELSE Len(Head(files).rows) + TotalRows(Tail(files))

\* one more source row at the end of the last file
WithRow(files, r) ==
    [files EXCEPT ![Len(files)].rows = Append(@, Restrict(r, files[Len(files)].columns))]

-----------------------------------------------------------------------------
(* process_data, lines 11-34 *)

endswith(name, suffix) == name.ext = suffix

\* a reader yields a DataFrame: the header and the parsed rows; an empty
\* text cell parses to NaN, a numeric cell to its number; the two readers
\* differ in the bytes they decode, not in the frame they yield
ParseCell(col, v) == IF col \in NumericColumns THEN v ELSE IF v = "" THEN NaN ELSE v

ParseRows(file) ==
    [k \in 1..Len(file.rows) |-> [c \in file.columns |-> ParseCell(c, file.rows[k][c])]]

read_excel(file) == [kind |-> "DataFrame", columns |-> file.columns, rows |-> ParseRows(file)]

read_csv(file) == [kind |-> "DataFrame", columns |-> file.columns, rows |-> ParseRows(file)]

read(file) == IF endswith(file.name, ".xlsx") THEN read_excel(file) ELSE read_csv(file)

issubset(df) == required_columns \subseteq df.columns

\* variant: the message lists every required column
st_error_all(file, df) == [file |-> file.name, missing |-> required_columns]

\* the st.error call of line 23: the file's name and the missing columns
st_error(file, df) == [file |-> file.name, missing |-> required_columns \ df.columns]

\* variant: no row is dropped
dropna_none(df) == df

\* df.dropna(subset=['Code'])
dropna(df) == [df EXCEPT !.rows = SelectSeq(@, LAMBDA r : r.Code # NaN)]

\* variant: the operands are swapped
Difference_swapped(r) == r.TotExp - r.Tot

Difference(r) == r.Tot - r.TotExp

\* df['Difference'] = df['Tot'] - df['TotExp']
AddDifference(df) ==
    [df EXCEPT !.columns = @ \cup {"Difference"},
               !.rows = [k \in DOMAIN @ |->
                            [c \in DOMAIN @[k] \cup {"Difference"} |->
                                IF c = "Difference" THEN Difference(@[k]) ELSE @[k][c]]]]

\* variant: a later frame's rows come first
RECURSIVE Flatten_reversed(_)
Flatten_reversed(tables) ==
    IF tables = <<>> THEN <<>> ELSE Flatten_reversed(Tail(tables)) \o Head(tables).rows

RECURSIVE Flatten(_)
Flatten(tables) ==
    IF tables = <<>> THEN <<>> ELSE Head(tables).rows \o Flatten(Tail(tables))

\* pd.concat(all_data, ignore_index=True): raises on an empty list; the
\* columns are the union of the frames', a cell a frame lacks is NaN
concat(all_data) ==
    IF all_data = <<>> THEN ValueError
    ELSE LET cols == UNION { all_data[i].columns : i \in DOMAIN all_data }
             rows == Flatten(all_data)
         IN [kind |-> "DataFrame", columns |-> cols,
             rows |-> [k \in DOMAIN rows |->
                          [c \in cols |-> IF c \in DOMAIN rows[k] THEN rows[k][c] ELSE NaN]]]

\* lines 23-24: report the file and return None
invalid_format(file, df, log) ==
    [ret |-> None, errors |-> <<st_error(file, df)>>, reads |-> log]

\* variant: the loop goes on after a failed file and fails at the end
RECURSIVE process_files_all(_, _, _, _)
process_files_all(files, i, all_data, log) ==
    IF i > Len(files)
    THEN [ret |-> concat(all_data), errors |-> <<>>, reads |-> log]
    ELSE LET file == files[i]
             df == read(file)
         IN IF ~issubset(df)
            THEN LET rest == process_files_all(files, i + 1, all_data, Append(log, i))
                 IN [ret |-> None, errors |-> <<st_error(file, df)>> \o rest.errors,
                     reads |-> rest.reads]
            ELSE process_files_all(files, i + 1,
                                   Append(all_data, AddDifference(dropna(df))),
                                   Append(log, i))

\* the loop of lines 15-32 from file i on, then line 34
RECURSIVE process_files(_, _, _, _)
process_files(files, i, all_data, log) ==
    IF i > Len(files)
    THEN [ret |-> concat(all_data), errors |-> <<>>, reads |-> log]
    ELSE LET file == files[i]
             df == read(file)
         IN IF ~issubset(df)
            THEN invalid_format(file, df, Append(log, i))
            ELSE process_files(files, i + 1,
                               Append(all_data, AddDifference(dropna(df))),
                               Append(log, i))

process_data(files) == process_files(files, 1, <<>>, <<>>)

-----------------------------------------------------------------------------
(* The cached call, lines 11 and 36 *)

\* variant: the key is built from the files' names only
CacheKey_names(files) == [i \in DOMAIN files |-> files[i].name]

\* st.cache_data keys an entry on the hash of the argument: for a list of
\* uploaded files, each file's name and bytes, in list order
CacheKey(files) ==
    [i \in DOMAIN files |-> <<files[i].name, <<files[i].columns, files[i].rows>>>>]

\* a hit hands out a copy of the stored value and replays the stored
\* st.error; a miss runs the function and stores what it returned
cache_data(files, store) ==
    LET key == CacheKey(files)
    IN IF key \in DOMAIN store
       THEN [ret |-> store[key].ret, errors |-> store[key].errors, reads |-> <<>>,
             cache |-> store]
       ELSE LET r == process_data(files)
            IN [ret |-> r.ret, errors |-> r.errors, reads |-> r.reads,
                cache |-> store @@ (key :> [ret |-> r.ret, errors |-> r.errors])]

-----------------------------------------------------------------------------
(* The analyses, lines 38-114 *)

Options == { "Filter Data by LBType",
             "Find Funded & Non-Funded Projects",
             "Compare Total Expense & Total Income",
             "District-wise Expense vs Income",
             "Find Projects Where Funds Were Not Used" }

\* variant: the sidebar is drawn whatever the call returned
sidebar_always(d) == TRUE

\* line 38 as it guards the sidebar of lines 39-49
sidebar(d) == d # None

\* line 38 as it guards the analyses of lines 51-114
is_not_None(d) == d # None

\* data[mask] for a boolean mask over the rows: the selected rows keep
\* their index labels
Select(df, mask) ==
    LET RECURSIVE Pick(_)
        Pick(k) == IF k > Len(df.rows) THEN <<>>
                   ELSE IF mask[k]
                        THEN <<[index |-> k, row |-> df.rows[k]]>> \o Pick(k + 1)
                        ELSE Pick(k + 1)
    IN [kind |-> "DataFrame", columns |-> df.columns, rows |-> Pick(1)]

\* st.dataframe(df) of a whole table
dataframe(df) == Select(df, [k \in DOMAIN df.rows |-> TRUE])

\* data['LBType'].unique()
lb_types(df) == { df.rows[k].LBType : k \in DOMAIN df.rows }

\* lines 57-61
filtered_data(df, selected) ==
    IF selected # {}
    THEN Select(df, [k \in DOMAIN df.rows |-> df.rows[k].LBType \in selected])
    ELSE dataframe(df)

\* np.where(data['Tot'] == 0, 'Not Funded', 'Funded')
FundingStatus(r) == IF r.Tot = 0 THEN "Not Funded" ELSE "Funded"

\* line 66: data['Funding Status'] = ..., an assignment into `data` itself
AddFundingStatus(df) ==
    [df EXCEPT !.columns = @ \cup {"Funding Status"},
               !.rows = [k \in DOMAIN @ |->
                            [c \in DOMAIN @[k] \cup {"Funding Status"} |->
                                IF c = "Funding Status" THEN FundingStatus(@[k])
                                ELSE @[k][c]]]]

\* data['Funding Status'].value_counts()
funded_counts(df) ==
    [st \in { df.rows[k]["Funding Status"] : k \in DOMAIN df.rows } |->
        Cardinality({ k \in DOMAIN df.rows : df.rows[k]["Funding Status"] = st })]

\* data[[...]] of line 70
funded_frame(df) ==
    LET cols == {"Code", "LBType", "Sector", "District", "Tot", "Funding Status"}
    IN [kind |-> "DataFrame", columns |-> cols,
        rows |-> [k \in DOMAIN df.rows |->
                     [index |-> k, row |-> [c \in cols |-> df.rows[k][c]]]]]

RECURSIVE sum(_, _)
sum(rows, col) == IF rows = <<>> THEN 0 ELSE Head(rows)[col] + sum(Tail(rows), col)

\* data.groupby('District')[['TotExp', 'Tot']].sum()
district_data(df) ==
    [d \in { df.rows[k].District : k \in DOMAIN df.rows } |->
        LET rows == SelectSeq(df.rows, LAMBDA r : r.District = d)
        IN [TotExp |-> sum(rows, "TotExp"), Tot |-> sum(rows, "Tot")]]

\* variant: the income test is "not zero"
unused_mask_nonzero(r) == r.TotExp = 0 /\ r.Tot # 0

\* the boolean mask of line 113
unused_mask(r) == r.TotExp = 0 /\ r.Tot > 0

unused_funds(df) == Select(df, [k \in DOMAIN df.rows |-> unused_mask(df.rows[k])])

NoPage == [filter |-> NoView, funded |-> NoView, totals |-> NoView,
           district |-> NoView, unused |-> NoView]

\* what a run leaves behind when line 10 stops it: an empty page
Blank(store) ==
    [cache |-> store, ret |-> NotCalled, errors |-> <<>>, reads |-> <<>>,
     data |-> NotCalled, menu |-> FALSE, analysis_options |-> {},
     selected_lbtype |-> {}, page |-> NoPage]

\* what a run leaves behind when line 38 stops it
Stopped(call) ==
    [cache |-> call.cache, ret |-> call.ret, errors |-> call.errors,
     reads |-> call.reads, data |-> call.ret, menu |-> sidebar(call.ret),
     analysis_options |-> {}, selected_lbtype |-> {}, page |-> NoPage]

\* One execution of the script, lines 10-114.  A widget that a run does not
\* draw loses its value; the LBType multiselect is a new widget, holding its
\* default [], whenever its option list differs from the last run's.
Script(files, opts, lbsel, lbshown, store) ==
    IF files = <<>>
    THEN Blank(store)
    ELSE LET call == cache_data(files, store)
         IN IF ~is_not_None(call.ret)
            THEN Stopped(call)
            ELSE LET df1 == call.ret
                     selected == IF lbshown = {lb_types(df1)} THEN lbsel ELSE {}
                     funded == "Find Funded & Non-Funded Projects" \in opts
                     df2 == IF funded THEN AddFundingStatus(df1) ELSE df1
                 IN [cache |-> call.cache, ret |-> call.ret, errors |-> call.errors,
                     reads |-> call.reads, data |-> df2, menu |-> sidebar(call.ret),
                     analysis_options |-> opts,
                     selected_lbtype |->
                         IF "Filter Data by LBType" \in opts THEN selected ELSE {},
                     page |->
                       [filter |->
                            IF "Filter Data by LBType" \in opts
                            THEN [kind |-> "Filter", options |-> lb_types(df1),
                                  frame |-> filtered_data(df1, selected)]
                            ELSE NoView,
                        funded |->
                            IF funded
                            THEN [kind |-> "Funded", counts |-> funded_counts(df2),
                                  frame |-> funded_frame(df2)]
                            ELSE NoView,
                        totals |->
                            IF "Compare Total Expense & Total Income" \in opts
                            THEN [kind |-> "Totals",
                                  total_expense |-> sum(df2.rows, "TotExp"),
                                  total_income |-> sum(df2.rows, "Tot")]
                            ELSE NoView,
                        district |->
                            IF "District-wise Expense vs Income" \in opts
                            THEN [kind |-> "District", sums |-> district_data(df2)]
                            ELSE NoView,
                        unused |->
                            IF "Find Projects Where Funds Were Not Used" \in opts
                            THEN unused_funds(df2)
                            ELSE NoView]]

-----------------------------------------------------------------------------
(* SpecFn: process_data and the unused-funds selection applied to every   *)
(* file sequence of the universe                                           *)

InitFn ==
    /\ uploaded_files = <<>>
    /\ analysis_options = {}
    /\ selected_lbtype = {}
    /\ cache = <<>>
    /\ ret = NotCalled
    /\ errors = <<>>
    /\ reads = <<>>
    /\ data = NotCalled
    /\ menu = FALSE
    /\ page = NoPage

\* the argument grows by one file
ChooseFile ==
    /\ ret = NotCalled
    /\ Len(uploaded_files) < MaxFiles
    /\ \E nm \in FileNames, h \in Headers :
          uploaded_files' = Append(uploaded_files, EmptyFile(nm, h))
    /\ UNCHANGED <<analysis_options, selected_lbtype, cache, ret, errors, reads,
                   data, menu, page>>

\* the argument's last file grows by one row
ChooseRow ==
    /\ ret = NotCalled
    /\ uploaded_files # <<>>
    /\ TotalRows(uploaded_files) < MaxRows
    /\ \E r \in RowPool : uploaded_files' = WithRow(uploaded_files, r)
    /\ UNCHANGED <<analysis_options, selected_lbtype, cache, ret, errors, reads,
                   data, menu, page>>

CallProcessData ==
    /\ ret = NotCalled
    /\ LET r == process_data(uploaded_files)
       IN /\ ret' = r.ret
          /\ errors' = r.errors
          /\ reads' = r.reads
          /\ data' = r.ret
    /\ UNCHANGED <<uploaded_files, analysis_options, selected_lbtype, cache, menu, page>>

CallUnusedFunds ==
    /\ data.kind = "DataFrame"
    /\ page.unused = NoView
    /\ page' = [page EXCEPT !.unused = unused_funds(data)]
    /\ UNCHANGED <<uploaded_files, analysis_options, selected_lbtype, cache, ret,
                   errors, reads, data, menu>>

NextFn == ChooseFile \/ ChooseRow \/ CallProcessData \/ CallUnusedFunds

SpecFn == InitFn /\ [][NextFn]_vars

-----------------------------------------------------------------------------
(* Spec: a browser session of the app *)

File(nm, h, rs) ==
    [name |-> nm, columns |-> h, rows |-> [k \in DOMAIN rs |-> Restrict(rs[k], h)]]

\* the files the user picks from: two valid files of the same name and
\* different content, a valid spreadsheet, and a file without the Sector column
Disk ==
    { File([stem |-> "a", ext |-> ".csv"], required_columns,
           << RawRow("P1", "X", 2, 0, "S1", "D1"), RawRow("", "Y", 1, 0, "S2", "D2") >>),
      File([stem |-> "a", ext |-> ".csv"], required_columns,
           << RawRow("P2", "Y", 0, 0, "S2", "D2"), RawRow("P3", "X", 1, 2, "S1", "D1") >>),
      File([stem |-> "b", ext |-> ".xlsx"], required_columns,
           << RawRow("P4", "Y", -1, 0, "S1", "D2") >>),
      File([stem |-> "c", ext |-> ".csv"], required_columns \ {"Sector"},
           << RawRow("P1", "X", 2, 0, "S1", "D1") >>) }

Init ==
    /\ uploaded_files = <<>>
    /\ analysis_options = {}
    /\ selected_lbtype = {}
    /\ cache = <<>>
    /\ ret = NotCalled
    /\ errors = <<>>
    /\ reads = <<>>
    /\ data = NotCalled
    /\ menu = FALSE
    /\ page = NoPage

\* the option lists of the LBType widgets on the page: one or none
LBShown == IF page.filter = NoView THEN {} ELSE {page.filter.options}

\* the session goes on while the cache has room for the upload
Room(files) ==
    \/ files = <<>>
    \/ CacheKey(files) \in DOMAIN cache
    \/ Cardinality(DOMAIN cache) < MaxCache

Rerun(files, opts, lbsel) ==
    LET s == Script(files, opts, lbsel, LBShown, cache)
    IN /\ uploaded_files' = files
       /\ analysis_options' = s.analysis_options
       /\ selected_lbtype' = s.selected_lbtype
       /\ cache' = s.cache
       /\ ret' = s.ret
       /\ errors' = s.errors
       /\ reads' = s.reads
       /\ data' = s.data
       /\ menu' = s.menu
       /\ page' = s.page

\* the user adds a file to the uploader of line 8
Upload ==
    /\ Len(uploaded_files) < MaxFiles
    /\ \E f \in Disk :
          /\ Room(Append(uploaded_files, f))
          /\ Rerun(Append(uploaded_files, f), analysis_options, selected_lbtype)

\* the user removes a file from the uploader
Remove ==
    \E i \in DOMAIN uploaded_files :
        LET files == SubSeq(uploaded_files, 1, i - 1)
                        \o SubSeq(uploaded_files, i + 1, Len(uploaded_files))
        IN /\ Room(files)
           /\ Rerun(files, analysis_options, selected_lbtype)

\* the user ticks or unticks an analysis in the sidebar multiselect
SelectAnalysis ==
    /\ menu
    /\ \E o \in Options :
          Rerun(uploaded_files,
                IF o \in analysis_options THEN analysis_options \ {o}
                ELSE analysis_options \cup {o},
                selected_lbtype)

\* the user changes the "Select LBType(s)" multiselect
SelectLBType ==
    /\ page.filter # NoView
    /\ \E sel \in SUBSET page.filter.options :
          /\ sel # selected_lbtype
          /\ Rerun(uploaded_files, analysis_options, sel)

Next == Upload \/ Remove \/ SelectAnalysis \/ SelectLBType

Spec == Init /\ [][Next]_vars

-----------------------------------------------------------------------------
(* What the claims speak of, stated on the uploaded files themselves *)

Called == ret # NotCalled

Offending(f) == \E c \in required_columns : c \notin f.columns

SomeOffending == \E i \in DOMAIN uploaded_files : Offending(uploaded_files[i])

FirstOffender ==
    CHOOSE i \in DOMAIN uploaded_files :
        /\ Offending(uploaded_files[i])
        /\ \A j \in 1..(i - 1) : ~Offending(uploaded_files[j])

ErrorOf(f) == [file |-> f.name, missing |-> { c \in required_columns : c \notin f.columns }]

\* the source rows with a Code, file after file, in source order
RECURSIVE KeptSource(_)
KeptSource(files) ==
    IF files = <<>> THEN <<>>
    ELSE SelectSeq(Head(files).rows, LAMBDA r : r.Code # "") \o KeptSource(Tail(files))

\* how many rows of a sequence carry the Code c
RECURSIVE CountCode(_, _)
CountCode(rows, c) ==
    IF rows = <<>> THEN 0
    ELSE (IF Head(rows).Code = c THEN 1 ELSE 0) + CountCode(Tail(rows), c)

RECURSIVE AllSource(_)
AllSource(files) ==
    IF files = <<>> THEN <<>> ELSE Head(files).rows \o AllSource(Tail(files))

Codes == { r.Code : r \in RowPool } \ {""}

-----------------------------------------------------------------------------
(* Claims on process_data, under SpecFn *)

\* C1: when a file of the call lacks a required column the call returns None,
\* whatever the other files are, and the message names an offending file
\* with exactly the required columns that file lacks.
C1_SchemaFailure ==
    (Called /\ SomeOffending) =>
        /\ ret = None
        /\ errors # <<>>
        /\ \A k \in DOMAIN errors :
              \E i \in DOMAIN uploaded_files :
                  /\ Offending(uploaded_files[i])
                  /\ errors[k] = ErrorOf(uploaded_files[i])

\* a call that failed on a file lacking only Sector, next to a valid file
C1_Witness ==
    /\ Called
    /\ Len(uploaded_files) = 2
    /\ \E i, j \in DOMAIN uploaded_files :
          /\ ~Offending(uploaded_files[i])
          /\ uploaded_files[i].rows # <<>>
          /\ uploaded_files[j].columns = required_columns \ {"Sector"}
    /\ ret = None
    /\ errors[1].missing = {"Sector"}

\* C2: every row of a returned table has Difference = Tot - TotExp.
C2_Difference ==
    ret.kind = "DataFrame" =>
        \A k \in DOMAIN ret.rows :
            ret.rows[k].Difference = ret.rows[k].Tot - ret.rows[k].TotExp

\* a returned table with a negative and a positive Difference
C2_Witness ==
    /\ ret.kind = "DataFrame"
    /\ \E k \in DOMAIN ret.rows : ret.rows[k].Difference < 0
    /\ \E k \in DOMAIN ret.rows : ret.rows[k].Difference > 0

\* C3: a returned table has no row without a Code, it has every source row
\* with a Code as often as the source has it, and dropping raised no error.
C3_NullCodes ==
    ret.kind = "DataFrame" =>
        /\ \A k \in DOMAIN ret.rows : ret.rows[k].Code \notin {NaN, ""}
        /\ \A c \in Codes :
              CountCode(ret.rows, c) = CountCode(AllSource(uploaded_files), c)
        /\ errors = <<>>

\* a returned table whose source had rows with and without a Code
C3_Witness ==
    /\ ret.kind = "DataFrame"
    /\ CountCode(AllSource(uploaded_files), "") > 0
    /\ ret.rows # <<>>

\* C4: a returned table is, on the source columns, the source rows with a
\* Code in file order and, within a file, in source order.
C4_Order ==
    ret.kind = "DataFrame" =>
        [k \in DOMAIN ret.rows |-> Restrict(ret.rows[k], required_columns)]
            = KeptSource(uploaded_files)

\* two files, the second one losing a row: three source rows, two returned
C4_Witness ==
    /\ ret.kind = "DataFrame"
    /\ Len(uploaded_files) = 2
    /\ Len(uploaded_files[1].rows) = 1
    /\ Len(uploaded_files[2].rows) = 2
    /\ uploaded_files[2].rows[1].Code = ""
    /\ Len(ret.rows) = 2
    /\ ret.rows[1].Code # ret.rows[2].Code

\* C5: a call with no file returns an empty table with the seven columns.
C5_EmptyCall ==
    (Called /\ uploaded_files = <<>>) =>
        /\ ret.kind = "DataFrame"
        /\ ret.columns = required_columns \cup {"Difference"}
        /\ ret.rows = <<>>

\* C8: the unused-funds view holds the row of index k exactly when that row
\* has TotExp = 0 and Tot > 0.
C8_UnusedFunds ==
    page.unused # NoView =>
        /\ \A k \in DOMAIN data.rows :
              (\E j \in DOMAIN page.unused.rows : page.unused.rows[j].index = k)
                  <=> (data.rows[k].TotExp = 0 /\ data.rows[k].Tot > 0)
        /\ \A j \in DOMAIN page.unused.rows :
              /\ page.unused.rows[j].index \in DOMAIN data.rows
              /\ page.unused.rows[j].row = data.rows[page.unused.rows[j].index]

\* a view over a table with a qualifying row, a 0/0 row and a negative Tot
C8_Witness ==
    /\ page.unused # NoView
    /\ Len(page.unused.rows) = 1
    /\ \E k \in DOMAIN data.rows : data.rows[k].Tot = 0 /\ data.rows[k].TotExp = 0
    /\ \E k \in DOMAIN data.rows : data.rows[k].Tot < 0 /\ data.rows[k].TotExp = 0

\* C9: the files are read one after the other in arrival order up to and
\* including the first offending one; its error is the only one reported.
C9_ShortCircuit ==
    Called =>
        /\ reads = [j \in 1..Len(reads) |-> j]
        /\ IF SomeOffending
           THEN /\ Len(reads) = FirstOffender
                /\ errors = <<ErrorOf(uploaded_files[FirstOffender])>>
           ELSE /\ Len(reads) = Len(uploaded_files)
                /\ errors = <<>>

\* a failed call on two offending files, the first one followed by more
C9_Witness ==
    /\ Called
    /\ Len(uploaded_files) = 2
    /\ Offending(uploaded_files[1])
    /\ Offending(uploaded_files[2])
    /\ ErrorOf(uploaded_files[1]) # ErrorOf(uploaded_files[2])
    /\ Len(errors) = 1

-----------------------------------------------------------------------------
(* Claims on the session, under Spec *)

\* C6: after the analyses ran, `data` has the columns and the rows it had
\* when process_data returned it.
C6_NotMutated ==
    data.kind = "DataFrame" => (data.columns = ret.columns /\ data.rows = ret.rows)

C10_Withheld ==
    /\ (menu \/ page # NoPage) =>
          /\ ret.kind = "DataFrame"
          /\ uploaded_files # <<>>
          /\ \A i \in DOMAIN uploaded_files : ~Offending(uploaded_files[i])
    /\ ret = None => (~menu /\ page = NoPage)
    /\ (uploaded_files # <<>> /\ ~SomeOffending) => menu

\* a failed call on an upload whose first file alone had given a table
C10_Witness ==
    /\ ret = None
    /\ Len(uploaded_files) = 2
    /\ CacheKey(<<uploaded_files[1]>>) \in DOMAIN cache
    /\ cache[CacheKey(<<uploaded_files[1]>>)].ret.kind = "DataFrame"
    /\ ~menu

====
